---- MODULE Spec2Model ----
(***************************************************************************)
(* A model of the speed-test repository:                                   *)
(*   - the ProfessionalSpeedTest browser client (src/public/js/script.js), *)
(*   - the SpeedTest browser client (src/unnamed/part_000, lines 1-357),   *)
(*   - the WebSocket server (src/unnamed/part_000, lines 359-626).         *)
(*                                                                         *)
(* JavaScript runs one callback at a time.  Each action below is one macro *)
(* task of the event loop (a timer callback, a message handler, a click)   *)
(* together with the promise continuations (micro tasks) it releases.      *)
(* Time is a discrete-event clock in milliseconds: `now` is Date.now(),    *)
(* every timer and every message in flight carries the time it is due, and *)
(* the event with the smallest due time runs next.                         *)
(*                                                                         *)
(* Numbers.  Rates are carried in kbit/s (Mbps * 1000) truncated to an     *)
(* integer.  A JavaScript number that a division produced is a record      *)
(* [k, v]: k = "fin" with the value v, or k = "inf" / "nan" for the        *)
(* results x/0 and 0/0, which JavaScript yields instead of throwing.       *)
(***************************************************************************)
EXTENDS Integers, Sequences, FiniteSets, TLC

\***************************************************************************
\* Bounds of the model
\***************************************************************************

\* startFullTest calls that are accepted (each accepted call is a run).
MaxRuns == 2

\* 'error' messages the server sends to the client.
MaxErrors == 1

\* Times the WebSocket closes.
MaxCloses == 1

\* Changes of the server selection.
MaxSelections == 3

\* const targetPings = 10 (script.js:225); the handlers are checked for a
\* smaller count.
targetPings == 3

\* const duration = 8000 (script.js:299), checked for a shorter window;
\* chunks = duration / interval.
downloadDuration == 300

\* const duration = 5000 (script.js:361), checked for a shorter window.
uploadDuration == 200

\***************************************************************************
\* Program constants
\***************************************************************************

\* const interval = 100 (script.js:300, 362)
interval == 100

\* const chunkSize = 1024 * 1024 (script.js:324)
chunkSize == 1048576

\* setTimeout(..., 200): the ping fallback timer (script.js:256)
pingTimeoutMs == 200

\* setTimeout(..., 100): the ping timer of fallback mode (script.js:264)
pingOfflineMs == 100

\* setTimeout(() => this.connectWebSocket(), 5000) (script.js:113)
reconnectMs == 5000

\* Round-trip times of an echoed ping, in ms: one shorter and one longer
\* than the 200 ms fallback timer.
PongDelays == {40, 250}

\* 50 + Math.random() * 30 (script.js:252): a value of [50, 80).
TimeoutPingValues == {65}

\* 20 + Math.random() * 40 (script.js:260): a value of [20, 60).
OfflinePingValues == {40}

Runs == 1..MaxRuns

\***************************************************************************
\* JavaScript numbers
\***************************************************************************

Fin(n) == [k |-> "fin", v |-> n]

\* a / b for a >= 0, b >= 0: Infinity for a/0, NaN for 0/0.
JsDiv(a, b) ==
    IF b = 0
    THEN (IF a = 0 THEN [k |-> "nan", v |-> 0] ELSE [k |-> "inf", v |-> 0])
    ELSE Fin(a \div b)

Max2(a, b) == IF a >= b THEN a ELSE b

Remove(s, i) == SubSeq(s, 1, i - 1) \o SubSeq(s, i + 1, Len(s))

\***************************************************************************
\* ProfessionalSpeedTest (src/public/js/script.js): state
\***************************************************************************

VARIABLES
    now,             \* Date.now(), ms
    testInProgress,  \* this.testInProgress
    currentTest,     \* this.currentTest
    results,         \* this.results: ping is a reference to a run's pings
                     \* array (0: the fresh empty array), see ResultsPing
    wsState,         \* this.ws.readyState
    handlePongOwner, \* the run whose testLatency closure this.handlePong is
    pc,              \* per run: the await startFullTest is suspended at
    pings,           \* per run: testLatency's `pings` array; each reading v
                     \* carries where it came from (src, history)
    pingCount,       \* per run: testLatency's `pingCount`
    sent,            \* per run: number of 'ping' messages sent (history)
    dl,              \* per run: testDownloadSpeed's closure
    ul,              \* per run: testUploadSpeed's closure
    timers,          \* pending setTimeout / setInterval callbacks
    msgs,            \* 'pong' messages in flight to the client, in order
    progressLabel,   \* updateProgress: the label
    progress,        \* updateProgress: the percentage, in 1/100 of a percent
    startDisabled,   \* this.startButton.disabled
    pingSpeed,       \* this.pingSpeed.textContent
    downloadSpeed,   \* this.downloadSpeed.textContent (before toFixed)
    uploadSpeed,     \* this.uploadSpeed.textContent (before toFixed)
    shown,           \* number of showFinalResults() calls
    history,         \* number of saveToHistory() calls
    nRuns,           \* accepted startFullTest calls
    nErrors,         \* 'error' messages received
    nCloses,         \* WebSocket closes
    phases,          \* per run: the phases entered, in order (history)
    cancelledIn,     \* per run: the phase resetTest() found it in (history)
    connects,        \* connectWebSocket() calls, by who made them: the
                     \* caller's code or the reconnect timer (history)
    sockets          \* the readyState of every WebSocket constructed, in
                     \* order; this.ws is the last one

proVars == <<now, testInProgress, currentTest, results, wsState,
             handlePongOwner, pc, pings, pingCount, sent, dl, ul, timers,
             msgs, progressLabel, progress, startDisabled, pingSpeed,
             downloadSpeed, uploadSpeed, shown, history, nRuns, nErrors,
             nCloses, phases, cancelledIn, connects, sockets>>

\* The server's state (src/unnamed/part_000, lines 359-626).
VARIABLES
    srvNow,            \* Date.now() on the server, ms
    open,              \* per connection: ws.readyState === WebSocket.OPEN
    uploadStartTime,   \* per connection: uploadStartTime (Null: null)
    totalUploadBytes,  \* per connection: totalUploadBytes
    uploadData,        \* per connection: the lengths of uploadData's buffers
    outbox,            \* per connection: what ws.send has sent, in order
    tasks,             \* the handleDownloadTest calls waiting in their
                       \* 10 ms sleep
    upl,               \* per connection: the last start-upload's time and
                       \* the time and cumulative byte count of every
                       \* binary message counted since, and the lengths
                       \* of the binary messages received since (history)
    nMsgs,             \* messages received
    nDownloads,        \* start-download messages received
    dropped,           \* per connection: the messages handed to ws.send
                       \* while the socket was not open (history)
    unknown            \* per connection: control messages received whose
                       \* type no case of the switch matches (history)

srvVars == <<srvNow, open, uploadStartTime, totalUploadBytes, uploadData,
             outbox, tasks, upl, nMsgs, nDownloads, dropped, unknown>>

\* The SpeedTest client (src/unnamed/part_000, lines 1-357):
\* const speedTest = new SpeedTest().  The object, the text of the elements
\* it writes, and the position of its asynchronous methods, as one record.
VARIABLES
    speedTest

simVars == <<speedTest>>

\* The server's jitter state (src/unnamed/part_000, lines 570-581).
VARIABLES
    lastLatency,       \* let lastLatency = 0: one variable of the process
    latencyResults,    \* per connection: the latency-result messages sent
                       \* to it, in order
    nLatencyTests      \* latency-test messages received

latVars == <<lastLatency, latencyResults, nLatencyTests>>

\* The server's connection handler (src/unnamed/part_000, lines 420-431).
VARIABLES
    connectionLog      \* for every connection the server accepted, in
                       \* order: the client address and what became of the
                       \* handler (history)

connVars == <<connectionLog>>

\* The client's state as one record, so that a handler is a function from
\* the state before it to the state after it and handlers compose as the
\* calls in the source do.
Cur ==
    [now |-> now, testInProgress |-> testInProgress,
     currentTest |-> currentTest, results |-> results, wsState |-> wsState,
     handlePongOwner |-> handlePongOwner, pc |-> pc, pings |-> pings,
     pingCount |-> pingCount, sent |-> sent, dl |-> dl, ul |-> ul,
     timers |-> timers, msgs |-> msgs, progressLabel |-> progressLabel,
     progress |-> progress, startDisabled |-> startDisabled,
     pingSpeed |-> pingSpeed, downloadSpeed |-> downloadSpeed,
     uploadSpeed |-> uploadSpeed, shown |-> shown, history |-> history,
     nRuns |-> nRuns, nErrors |-> nErrors, nCloses |-> nCloses,
     phases |-> phases, cancelledIn |-> cancelledIn, connects |-> connects,
     sockets |-> sockets]

Commit(e) ==
    /\ now' = e.now
    /\ testInProgress' = e.testInProgress
    /\ currentTest' = e.currentTest
    /\ results' = e.results
    /\ wsState' = e.wsState
    /\ handlePongOwner' = e.handlePongOwner
    /\ pc' = e.pc
    /\ pings' = e.pings
    /\ pingCount' = e.pingCount
    /\ sent' = e.sent
    /\ dl' = e.dl
    /\ ul' = e.ul
    /\ timers' = e.timers
    /\ msgs' = e.msgs
    /\ progressLabel' = e.progressLabel
    /\ progress' = e.progress
    /\ startDisabled' = e.startDisabled
    /\ pingSpeed' = e.pingSpeed
    /\ downloadSpeed' = e.downloadSpeed
    /\ uploadSpeed' = e.uploadSpeed
    /\ shown' = e.shown
    /\ history' = e.history
    /\ nRuns' = e.nRuns
    /\ nErrors' = e.nErrors
    /\ nCloses' = e.nCloses
    /\ phases' = e.phases
    /\ cancelledIn' = e.cancelledIn
    /\ connects' = e.connects
    /\ sockets' = e.sockets
    /\ UNCHANGED <<srvVars, simVars, latVars, connVars>>

\* A pending timer.  seq and answered are history: the ping the timer guards
\* and whether that ping's pong has been handled.
Timer(due, kind, run, seq) ==
    [due |-> due, kind |-> kind, run |-> run, seq |-> seq, answered |-> FALSE]

\* A throughput closure: let totalBytes = 0; let startTime = Date.now();
\* let speeds = []; let chunk = 0.  samples is history: the time and the
\* cumulative byte count at every tick of the interval.
Closure(t) ==
    [totalBytes |-> 0, startTime |-> t, speeds |-> <<>>, chunk |-> 0,
     samples |-> <<>>]

NoClosure == Closure(0)

\* The array this.results.ping refers to.
ResultsPing(e) == IF e.results.ping = 0 THEN <<>> ELSE e.pings[e.results.ping]

RECURSIVE SumV(_)
SumV(ps) == IF ps = <<>> THEN 0 ELSE Head(ps).v + SumV(Tail(ps))

\* Math.round(pings.reduce((a, b) => a + b, 0) / pings.length), for a
\* non-empty array of non-negative readings.
RoundedAvgPing(ps) == (2 * SumV(ps) + Len(ps)) \div (2 * Len(ps))

\***************************************************************************
\* ProfessionalSpeedTest: handlers, as functions of the state e
\***************************************************************************

\* updateProgress(label, percentage): the progress event the presentation
\* layer receives.
updateProgress(e, label, pct) ==
    [e EXCEPT !.progressLabel = label, !.progress = pct]

\* calculateAdvancedMetrics(): the aggregate phase; a function of the
\* results that completes without waiting.
calculateAdvancedMetrics(e, r) ==
    [e EXCEPT !.phases[r] = Append(@, "aggregate")]

\* showFinalResults()
showFinalResults(e) == [e EXCEPT !.shown = @ + 1]

\* saveToHistory()
saveToHistory(e) == [e EXCEPT !.history = @ + 1]

\* startFullTest, from the end of `await this.testUploadSpeed()` to the end
\* of the finally block.
finishFullTest(e, r) ==
    LET e1 == saveToHistory(showFinalResults(calculateAdvancedMetrics(e, r)))
    IN  [e1 EXCEPT !.testInProgress = FALSE,
                   !.startDisabled = FALSE,
                   !.pc[r] = "done"]

\* (totalBytes * 8) / totalDuration / 1000000 with totalDuration in seconds,
\* here in kbit/s.
avgSpeedMbps(totalBytes, elapsedMs) == JsDiv(totalBytes * 8, elapsedMs)

uploadChunks == uploadDuration \div interval

\* testUploadSpeed up to setInterval.
testUploadSpeed(e, r) ==
    LET e1 == updateProgress(e, "Testing upload speed...", 6000)
    IN  [e1 EXCEPT !.currentTest = "upload",
                   !.ul[r] = Closure(e.now),
                   !.timers = Append(@, Timer(e.now + interval, "upload", r, 0)),
                   !.pc[r] = "upload",
                   !.phases[r] = Append(@, "upload")]

\* The end branch of uploadInterval's callback: the interval is cleared (the
\* fired timer is not set again) and the average is computed.  The source
\* file ends inside this branch; what follows the average is taken to be
\* what testDownloadSpeed's end branch does: the speed is displayed, the
\* speeds are stored, the promise resolves and startFullTest runs to its end.
uploadIntervalEnd(e, r) ==
    LET c  == e.ul[r]
        e1 == [e EXCEPT !.uploadSpeed =
                            avgSpeedMbps(c.totalBytes, e.now - c.startTime),
                        !.results.upload = c.speeds,
                        !.ul[r].samples =
                            Append(@, [t |-> e.now, bytes |-> c.totalBytes])]
    IN  IF e.pc[r] = "upload" THEN finishFullTest(e1, r) ELSE e1

\* The other branch of uploadInterval's callback, which the source file does
\* not reach: one more fixed-size chunk is counted as sent and a cumulative
\* reading is recorded, as in the download phase.
uploadIntervalChunk(e, r) ==
    LET c     == e.ul[r]
        bytes == c.totalBytes + chunkSize
        speed == JsDiv(bytes * 8, e.now - c.startTime)
        e1    == updateProgress(e, "Testing upload speed...",
                                6000 + (c.chunk * 3000) \div uploadChunks)
    IN  [e1 EXCEPT !.ul[r] = [c EXCEPT !.totalBytes = bytes,
                                       !.speeds = Append(@, speed),
                                       !.samples = Append(@, [t |-> e.now, bytes |-> bytes]),
                                       !.chunk = @ + 1],
                   !.timers = Append(@, Timer(e.now + interval, "upload", r, 0))]

\* uploadInterval's callback.
uploadInterval(e, r) ==
    IF e.ul[r].chunk >= uploadChunks \/ ~e.testInProgress
    THEN uploadIntervalEnd(e, r)
    ELSE uploadIntervalChunk(e, r)

\* const chunks = duration / interval
chunks == downloadDuration \div interval

\* testDownloadSpeed up to setInterval.
testDownloadSpeed(e, r) ==
    LET e1 == updateProgress(e, "Testing download speed...", 2000)
    IN  [e1 EXCEPT !.currentTest = "download",
                   !.dl[r] = Closure(e.now),
                   !.timers = Append(@, Timer(e.now + interval, "download", r, 0)),
                   !.pc[r] = "download",
                   !.phases[r] = Append(@, "download")]

\* downloadInterval's callback.  When the end branch resolves the promise,
\* `await this.testDownloadSpeed()` returns and testUploadSpeed starts.
downloadInterval(e, r) ==
    LET c == e.dl[r]
    IN  IF c.chunk >= chunks \/ ~e.testInProgress
        THEN LET e1 == [e EXCEPT !.downloadSpeed =
                                     avgSpeedMbps(c.totalBytes, e.now - c.startTime),
                                 !.results.download = c.speeds,
                                 !.dl[r].samples =
                                     Append(@, [t |-> e.now, bytes |-> c.totalBytes])]
             IN  IF e.pc[r] = "download" THEN testUploadSpeed(e1, r) ELSE e1
        ELSE LET bytes == c.totalBytes + chunkSize
                 speed == JsDiv(bytes * 8, e.now - c.startTime)
                 e1    == updateProgress(e, "Testing download speed...",
                                         2000 + (c.chunk * 4000) \div chunks)
             IN  [e1 EXCEPT !.dl[r] = [c EXCEPT !.totalBytes = bytes,
                                                !.speeds = Append(@, speed),
                                                !.samples = Append(@, [t |-> e.now, bytes |-> bytes]),
                                                !.chunk = @ + 1],
                            !.timers = Append(@, Timer(e.now + interval,
                                                       "download", r, 0))]

\* The 'pong' the server answers a 'ping' with, arriving d ms after the ping
\* was sent; the socket delivers in order.
Pong(e, r, d) ==
    [due |-> IF e.msgs = <<>> THEN e.now + d
             ELSE Max2(e.now + d, e.msgs[Len(e.msgs)].due),
     timestamp |-> e.now, run |-> r, seq |-> e.sent[r] + 1]

\* sendPing's end branch: the average, results.ping and resolve(), which
\* lets `await this.testLatency()` return so that testDownloadSpeed starts.
sendPingEnd(e, r) ==
    LET e1 == [e EXCEPT !.pingSpeed = RoundedAvgPing(e.pings[r]),
                        !.results.ping = r]
    IN  IF e.pc[r] = "latency" THEN testDownloadSpeed(e1, r) ELSE e1

\* sendPing; d is the round-trip time of the ping it may send.
sendPing(e, r, d) ==
    IF e.pingCount[r] >= targetPings
    THEN sendPingEnd(e, r)
    ELSE IF e.wsState = "OPEN"
         THEN [e EXCEPT !.sent[r] = @ + 1,
                        !.msgs = Append(@, Pong(e, r, d)),
                        !.timers = Append(@, Timer(e.now + pingTimeoutMs,
                                                   "pingTimeout", r,
                                                   e.sent[r] + 1))]
         ELSE [e EXCEPT !.timers = Append(@, Timer(e.now + pingOfflineMs,
                                                   "pingOffline", r, 0))]

\* updateProgress('Testing latency...', 10 + (pingCount / targetPings) * 10)
latencyProgress(e, r) ==
    updateProgress(e, "Testing latency...",
                   1000 + (e.pingCount[r] * 1000) \div targetPings)

\* The "fallback if no response" timer; v is 50 + Math.random() * 30.
pingTimeout(e, r, v, d) ==
    IF e.pingCount[r] < targetPings
    THEN sendPing([e EXCEPT !.pings[r] =
                                Append(@, [v |-> v, src |-> "timeout"]),
                            !.pingCount[r] = @ + 1], r, d)
    ELSE e

\* The "fallback mode" timer; v is 20 + Math.random() * 40.
pingOffline(e, r, v, d) ==
    LET e1 == [e EXCEPT !.pings[r] = Append(@, [v |-> v, src |-> "offline"]),
                        !.pingCount[r] = @ + 1]
    IN  sendPing(latencyProgress(e1, r), r, d)

\* this.handlePong as testLatency of run r overrides it.
handlePong(e, r, data, d) ==
    LET latency == e.now - data.timestamp
        e1 == [e EXCEPT !.pings[r] =
                            Append(@, [v |-> latency, src |-> "pong"]),
                        !.pingCount[r] = @ + 1]
        e2 == latencyProgress(e1, r)
        e3 == [e2 EXCEPT !.pingSpeed = RoundedAvgPing(e2.pings[r])]
    IN  sendPing(e3, r, d)

\* testLatency
testLatency(e, r, d) ==
    LET e1 == updateProgress(e, "Testing latency...", 1000)
        e2 == [e1 EXCEPT !.currentTest = "latency",
                         !.pings[r] = <<>>,
                         !.pingCount[r] = 0,
                         !.handlePongOwner = r,
                         !.pc[r] = "latency",
                         !.phases[r] = <<"latency">>]
    IN  sendPing(e2, r, d)

\* startFullTest up to its first await; the call is run e.nRuns + 1 when it
\* is accepted.
startFullTest(e, d) ==
    IF e.testInProgress
    THEN e
    ELSE LET r  == e.nRuns + 1
             e1 == [e EXCEPT !.testInProgress = TRUE,
                             !.results = [download |-> <<>>, upload |-> <<>>,
                                          ping |-> 0],
                             !.startDisabled = TRUE,
                             !.nRuns = r]
         IN  testLatency(updateProgress(e1, "Preparing test...", 0), r, d)

\* connectWebSocket(): this.ws = new WebSocket(wsUrl); by is who called.
connectWebSocket(e, by) ==
    [e EXCEPT !.sockets = Append(@, "CONNECTING"),
              !.wsState = "CONNECTING",
              !.connects[by] = @ + 1]

\* WebSocket k changes its readyState; this.ws.readyState follows when k is
\* this.ws.
setReadyState(e, k, state) ==
    [e EXCEPT !.sockets[k] = state,
              !.wsState = IF k = Len(e.sockets) THEN state ELSE @]

\* resetTest(): cancellation is cooperative; it sets the flag the phases
\* read at their next tick, that is, it clears testInProgress.
resetTest(e) ==
    [e EXCEPT !.testInProgress = FALSE,
              !.cancelledIn = [r \in Runs |->
                                  IF @[r] = "none" /\ e.pc[r] \notin {"idle", "done"}
                                  THEN e.pc[r] ELSE @[r]]]

\***************************************************************************
\* ProfessionalSpeedTest: the event loop
\***************************************************************************

\* Timer i is the next event: nothing is due earlier, and timers due at the
\* same time run in the order they were set.
TimerReady(i) ==
    /\ \A j \in DOMAIN timers :
          /\ timers[i].due <= timers[j].due
          /\ timers[j].due = timers[i].due => i <= j
    /\ \A m \in DOMAIN msgs : timers[i].due <= msgs[m].due

\* The first message in flight is the next event.
MsgReady ==
    /\ msgs # <<>>
    /\ \A j \in DOMAIN timers : msgs[1].due <= timers[j].due

\* The state a timer's callback starts in: the clock is at the due time and
\* the timer is no longer pending.
Fired(i) == [Cur EXCEPT !.now = timers[i].due, !.timers = Remove(timers, i)]

ProInit ==
    /\ now = 0
    /\ testInProgress = FALSE
    /\ currentTest = "none"
    /\ results = [download |-> <<>>, upload |-> <<>>, ping |-> 0]
    /\ wsState = "CONNECTING"
    /\ handlePongOwner = 0
    /\ pc = [r \in Runs |-> "idle"]
    /\ pings = [r \in Runs |-> <<>>]
    /\ pingCount = [r \in Runs |-> 0]
    /\ sent = [r \in Runs |-> 0]
    /\ dl = [r \in Runs |-> NoClosure]
    /\ ul = [r \in Runs |-> NoClosure]
    /\ timers = <<>>
    /\ msgs = <<>>
    /\ progressLabel = ""
    /\ progress = 0
    /\ startDisabled = FALSE
    /\ pingSpeed = 0
    /\ downloadSpeed = Fin(0)
    /\ uploadSpeed = Fin(0)
    /\ shown = 0
    /\ history = 0
    /\ nRuns = 0
    /\ nErrors = 0
    /\ nCloses = 0
    /\ phases = [r \in Runs |-> <<>>]
    /\ cancelledIn = [r \in Runs |-> "none"]
    /\ connects = [caller |-> 1, timer |-> 0]
    /\ sockets = <<"CONNECTING">>

\* A call of startFullTest() (the start button's click listener).
StartFullTest ==
    /\ testInProgress \/ nRuns < MaxRuns
    /\ \E d \in PongDelays : Commit(startFullTest(Cur, d))

\* ws.onmessage with a 'pong': handleWebSocketMessage calls this.handlePong.
PongArrives ==
    /\ MsgReady
    /\ LET m  == Head(msgs)
           e0 == [Cur EXCEPT
                    !.now = m.due,
                    !.msgs = Tail(msgs),
                    !.timers = [i \in DOMAIN timers |->
                                   IF /\ timers[i].kind = "pingTimeout"
                                      /\ timers[i].run = m.run
                                      /\ timers[i].seq = m.seq
                                   THEN [timers[i] EXCEPT !.answered = TRUE]
                                   ELSE timers[i]]]
       IN  \E d \in PongDelays :
              Commit(handlePong(e0, handlePongOwner, m, d))

\* The 200 ms fallback timer of a sent ping fires.
PingTimeoutFires ==
    \E i \in DOMAIN timers :
       /\ TimerReady(i)
       /\ timers[i].kind = "pingTimeout"
       /\ \E v \in TimeoutPingValues, d \in PongDelays :
             Commit(pingTimeout(Fired(i), timers[i].run, v, d))

\* The 100 ms timer of fallback mode fires.
PingOfflineFires ==
    \E i \in DOMAIN timers :
       /\ TimerReady(i)
       /\ timers[i].kind = "pingOffline"
       /\ \E v \in OfflinePingValues, d \in PongDelays :
             Commit(pingOffline(Fired(i), timers[i].run, v, d))

\* downloadInterval ticks.
DownloadIntervalFires ==
    \E i \in DOMAIN timers :
       /\ TimerReady(i)
       /\ timers[i].kind = "download"
       /\ Commit(downloadInterval(Fired(i), timers[i].run))

\* uploadInterval ticks.
UploadIntervalFires ==
    \E i \in DOMAIN timers :
       /\ TimerReady(i)
       /\ timers[i].kind = "upload"
       /\ Commit(uploadInterval(Fired(i), timers[i].run))

\* ws.onmessage with an 'error': showToast and resetTest().
ServerError ==
    /\ wsState = "OPEN"
    /\ nErrors < MaxErrors
    /\ Commit(resetTest([Cur EXCEPT !.nErrors = @ + 1]))

\* ws.onopen of WebSocket k
WsOpen ==
    \E k \in DOMAIN sockets :
       /\ sockets[k] = "CONNECTING"
       /\ Commit(setReadyState(Cur, k, "OPEN"))

\* ws.onclose of WebSocket k: the socket is closed, what was in flight on
\* this.ws is lost with it, and a reconnect is scheduled.
WsClose ==
    \E k \in DOMAIN sockets :
       /\ sockets[k] \in {"CONNECTING", "OPEN"}
       /\ nCloses < MaxCloses
       /\ Commit([setReadyState(Cur, k, "CLOSED") EXCEPT
                    !.msgs = IF k = Len(sockets) THEN <<>> ELSE @,
                    !.nCloses = @ + 1,
                    !.timers = Append(@, Timer(now + reconnectMs,
                                               "reconnect", 0, 0))])

\* serverSelect's change listener: this.config.server = e.target.value and
\* this.connectWebSocket().
ServerSelected ==
    /\ connects.caller <= MaxSelections
    /\ Commit(connectWebSocket(Cur, "caller"))

\* The reconnect timer fires: connectWebSocket() opens a new socket.
ReconnectFires ==
    \E i \in DOMAIN timers :
       /\ TimerReady(i)
       /\ timers[i].kind = "reconnect"
       /\ Commit(connectWebSocket(Fired(i), "timer"))

\***************************************************************************
\* The WebSocket server (src/unnamed/part_000, lines 359-626): state
\***************************************************************************

\* Connections the server holds.
MaxConns == 1

\* Messages the clients send to the server.
MaxMsgs == 3

\* start-download messages among them.
MaxDownloads == 2

\* Largest chunkCount a start-download asks for.
MaxChunkCount == 2

\* Largest chunkCount of a start-download where the download handler is
\* taken alone: three chunks give two download-progress messages.
LongChunkCount == 3

\* const UPLOAD_TEST_DURATION = 5000 (part_000:379)
UPLOAD_TEST_DURATION == 5000

\* await new Promise(resolve => setTimeout(resolve, 10)) (part_000:555)
chunkDelayMs == 10

\* if (elapsed >= 1000): an upload-progress every second (part_000:483)
progressEveryMs == 1000

\* let uploadStartTime = null (part_000:434)
Null == -1

Conns == 1..MaxConns

\* Time between two messages of the clients, ms.
Gaps == {0, 1000, 6000}

\* Time the synchronous part of a handler takes before it reads the clock:
\* within the same millisecond, or not.
SendCosts == {0, 1}

\* message.length of a binary message.
BinaryLens == {0, 65536}

\* The size keys a start-download carries; "other" is any key TEST_CHUNKS
\* does not hold.
SizeKeys == {"1mb", "other"}

\* TEST_CHUNKS[size] || TEST_CHUNKS['10mb'], as chunk.length
ChunkLength(size) ==
    CASE size = "1mb"   -> 1024 * 1024
      [] size = "5mb"   -> 5 * 1024 * 1024
      [] size = "10mb"  -> 10 * 1024 * 1024
      [] size = "25mb"  -> 25 * 1024 * 1024
      [] size = "50mb"  -> 50 * 1024 * 1024
      [] size = "100mb" -> 100 * 1024 * 1024
      [] OTHER          -> 10 * 1024 * 1024

SrvCur ==
    [now |-> srvNow, open |-> open, uploadStartTime |-> uploadStartTime,
     totalUploadBytes |-> totalUploadBytes, uploadData |-> uploadData,
     outbox |-> outbox, tasks |-> tasks, upl |-> upl,
     nMsgs |-> nMsgs, nDownloads |-> nDownloads, dropped |-> dropped,
     unknown |-> unknown]

SrvCommit(s) ==
    /\ srvNow' = s.now
    /\ open' = s.open
    /\ uploadStartTime' = s.uploadStartTime
    /\ totalUploadBytes' = s.totalUploadBytes
    /\ uploadData' = s.uploadData
    /\ outbox' = s.outbox
    /\ tasks' = s.tasks
    /\ upl' = s.upl
    /\ nMsgs' = s.nMsgs
    /\ nDownloads' = s.nDownloads
    /\ dropped' = s.dropped
    /\ unknown' = s.unknown
    /\ UNCHANGED <<proVars, simVars, latVars, connVars>>

\***************************************************************************
\* The server's handlers, as functions of the state s
\***************************************************************************

\* ws.send(data): a socket that is not open delivers nothing.
wsSend(s, c, m) ==
    IF s.open[c]
    THEN [s EXCEPT !.outbox[c] = Append(@, m)]
    ELSE [s EXCEPT !.dropped[c] = Append(@, m)]

\* (bytes * 8) / (elapsed / 1000) / 1000000, here in kbit/s
speedMbps(bytes, elapsedMs) == JsDiv(bytes * 8, elapsedMs)

\* handleDownloadTest's completion message.
downloadComplete(s, t) ==
    LET totalElapsed == s.now - t.startTime
    IN  wsSend(s, t.conn,
               [type |-> "download-complete", stream |-> t.id,
                speed |-> speedMbps(t.bytesSent, totalElapsed),
                totalBytes |-> t.bytesSent,
                duration |-> totalElapsed])

\* The body of handleDownloadTest's loop, from ws.send(chunk) to the await.
\* The stream field of a message is the start-download it answers
\* (history).
sendChunk(s, t, cost) ==
         LET bytes == t.bytesSent + t.len
             s1 == wsSend(s, t.conn, [type |-> "chunk", stream |-> t.id,
                                      len |-> t.len])
             s2 == [s1 EXCEPT !.now = @ + cost]
             elapsed == s2.now - t.startTime
             s3 == IF t.i % 2 = 0
                   THEN wsSend(s2, t.conn,
                               [type |-> "download-progress", stream |-> t.id,
                                speed |-> speedMbps(bytes, elapsed),
                                bytesDownloaded |-> bytes,
                                progress |-> ((t.i + 1) * 100) \div t.chunkCount,
                                elapsed |-> elapsed])
                   ELSE s2
         IN  [s3 EXCEPT !.tasks = Append(@, [t EXCEPT !.bytesSent = bytes,
                                                      !.due = s3.now + chunkDelayMs])]

\* handleDownloadTest's loop with no test of ws.readyState.
downloadLoopNoBreak(s, t, cost) ==
    IF t.i < t.chunkCount
    THEN sendChunk(s, t, cost)
    ELSE downloadComplete([s EXCEPT !.now = @ + cost], t)

\* handleDownloadTest from the loop test of iteration t.i to the next await
\* or to the end; cost is the time the sends take before the clock is read.
downloadLoop(s, t, cost) ==
    IF t.i < t.chunkCount /\ s.open[t.conn]
    THEN sendChunk(s, t, cost)
    ELSE downloadComplete([s EXCEPT !.now = @ + cost], t)

\* handleDownloadTest(ws, data) up to its first await.
handleDownloadTest(s, c, data, cost) ==
    downloadLoop(s, [conn |-> c, id |-> s.nDownloads, i |-> 0,
                     chunkCount |-> data.chunkCount,
                     len |-> ChunkLength(data.size), startTime |-> s.now,
                     bytesSent |-> 0, due |-> 0], cost)

\* case 'start-upload'
startUpload(s, c) ==
    wsSend([s EXCEPT !.uploadStartTime[c] = s.now,
                     !.totalUploadBytes[c] = 0,
                     !.uploadData[c] = <<>>,
                     !.upl[c].start = s.now,
                     !.upl[c].samples = <<>>],
           c, [type |-> "upload-ready"])

\* case 'ping'
pingMessage(s, c, data) ==
    wsSend(s, c, [type |-> "pong", timestamp |-> data.timestamp])

\* The catch block of ws.on('message'); thrownBy is what threw (history).
catchError(s, c, thrownBy) ==
    wsSend(s, c, [type |-> "error", thrownBy |-> thrownBy])

\* A string that is not JSON: JSON.parse(message) throws and the catch
\* block runs.
malformedMessage(s, c) == catchError(s, c, "JSON.parse")

\* A control message whose type no case matches: the switch has no default
\* and the handler returns.
unknownTypeMessage(s, c) == [s EXCEPT !.unknown[c] = @ + 1]

\* The binary branch of ws.on('message') inside if (uploadStartTime).
countUpload(s, c, len) ==
         LET total   == s.totalUploadBytes[c] + len
             elapsed == s.now - s.uploadStartTime[c]
             s1 == [s EXCEPT !.totalUploadBytes[c] = total,
                             !.uploadData[c] = Append(@, len),
                             !.upl[c].samples =
                                 Append(@, [t |-> s.now, bytes |-> total])]
             s2 == IF elapsed >= progressEveryMs
                   THEN wsSend(s1, c, [type |-> "upload-progress",
                                       speed |-> speedMbps(total, elapsed),
                                       bytesTransferred |-> total,
                                       elapsed |-> elapsed])
                   ELSE s1
         IN  IF elapsed >= UPLOAD_TEST_DURATION
             THEN LET s3 == wsSend(s2, c,
                                   [type |-> "upload-complete",
                                    speed |-> speedMbps(total, UPLOAD_TEST_DURATION),
                                    totalBytes |-> total,
                                    duration |-> elapsed])
                  IN  [s3 EXCEPT !.uploadStartTime[c] = Null,
                                 !.uploadData[c] = <<>>]
             ELSE s2

\* The binary branch with no test of uploadStartTime.
binaryMessageUnguarded(s, c, len) == countUpload(s, c, len)

\* The binary branch of ws.on('message').
binaryMessage(s, c, len) ==
    IF s.uploadStartTime[c] = Null \/ s.uploadStartTime[c] = 0
    THEN s
    ELSE countUpload(s, c, len)

\***************************************************************************
\* The server's event loop
\***************************************************************************

\* A message may arrive gap ms from now when no sleeping download is due
\* before then.
MayArrive(gap) ==
    /\ nMsgs < MaxMsgs
    /\ \A k \in DOMAIN tasks : srvNow + gap <= tasks[k].due

Arrived(gap) == [SrvCur EXCEPT !.now = srvNow + gap, !.nMsgs = @ + 1]

\* History of what connection c received: upl[c].lens is the lengths of the
\* binary messages since the most recent start-upload, whatever the handler
\* does with them.
received(s, c, kind, len) ==
    [s EXCEPT !.upl[c].lens = IF kind = "start-upload" THEN <<>>
                              ELSE Append(@, len)]

SrvInit ==
    /\ srvNow = 1
    /\ open = [c \in Conns |-> TRUE]
    /\ uploadStartTime = [c \in Conns |-> Null]
    /\ totalUploadBytes = [c \in Conns |-> 0]
    /\ uploadData = [c \in Conns |-> <<>>]
    /\ outbox = [c \in Conns |-> <<>>]
    /\ tasks = <<>>
    /\ upl = [c \in Conns |-> [start |-> 0, samples |-> <<>>, lens |-> <<>>]]
    /\ nMsgs = 0
    /\ nDownloads = 0
    /\ dropped = [c \in Conns |-> <<>>]
    /\ unknown = [c \in Conns |-> 0]

\* ws.on('message') with the 'start-download' message data.
startDownloadArrives(c, gap, data, cost) ==
    /\ open[c]
    /\ MayArrive(gap)
    /\ SrvCommit(handleDownloadTest([Arrived(gap) EXCEPT !.nDownloads = @ + 1],
                                    c, data, cost))

StartDownload ==
    \E c \in Conns, gap \in Gaps, size \in SizeKeys,
       n \in 0..MaxChunkCount, cost \in SendCosts :
       /\ nDownloads < MaxDownloads
       /\ startDownloadArrives(c, gap, [size |-> size, chunkCount |-> n], cost)

StartLongDownload ==
    \E c \in Conns, gap \in Gaps, size \in SizeKeys,
       n \in 0..LongChunkCount, cost \in SendCosts :
       /\ nDownloads < MaxDownloads
       /\ startDownloadArrives(c, gap, [size |-> size, chunkCount |-> n], cost)

\* A handleDownloadTest call wakes from its sleep and goes round its loop.
DownloadWakes ==
    \E k \in DOMAIN tasks, cost \in SendCosts :
       /\ \A j \in DOMAIN tasks :
             /\ tasks[k].due <= tasks[j].due
             /\ tasks[j].due = tasks[k].due => k <= j
       /\ LET t == tasks[k]
              s == [SrvCur EXCEPT !.now = Max2(srvNow, t.due),
                                  !.tasks = Remove(tasks, k)]
          IN  SrvCommit(downloadLoop(s, [t EXCEPT !.i = @ + 1], cost))

\* ws.on('message') with a 'start-upload'.
StartUpload ==
    \E c \in Conns, gap \in Gaps :
       /\ open[c]
       /\ MayArrive(gap)
       /\ SrvCommit(startUpload(received(Arrived(gap), c, "start-upload", 0), c))

\* ws.on('message') with binary data.
BinaryArrives ==
    \E c \in Conns, gap \in Gaps, len \in BinaryLens :
       /\ open[c]
       /\ MayArrive(gap)
       /\ SrvCommit(binaryMessage(received(Arrived(gap), c, "binary", len), c, len))

\* ws.on('message') with a 'ping'.
PingArrives ==
    \E c \in Conns, gap \in Gaps :
       /\ open[c]
       /\ MayArrive(gap)
       /\ SrvCommit(pingMessage(Arrived(gap), c, [timestamp |-> srvNow + gap]))

\* ws.on('message') with a string that is not JSON.
MalformedArrives ==
    \E c \in Conns, gap \in Gaps :
       /\ open[c]
       /\ MayArrive(gap)
       /\ SrvCommit(malformedMessage(Arrived(gap), c))

\* ws.on('message') with a control message of an unrecognised type.
UnknownTypeArrives ==
    \E c \in Conns, gap \in Gaps :
       /\ open[c]
       /\ MayArrive(gap)
       /\ SrvCommit(unknownTypeMessage(Arrived(gap), c))

\* ws.on('close')
ClientDisconnects ==
    \E c \in Conns :
       /\ open[c]
       /\ SrvCommit([SrvCur EXCEPT !.open[c] = FALSE])

\***************************************************************************
\* The server's latency-test handler and calculateJitter
\***************************************************************************

\* Connections that send latency-test messages.
MaxPeers == 2

\* latency-test messages the server receives.
MaxLatencyTests == 4

Peers == 1..MaxPeers

\* Date.now() - data.timestamp, ms.
Latencies == {0, 50, 70}

Abs(x) == IF x < 0 THEN -x ELSE x

\* calculateJitter(currentLatency) as a function of lastLatency: the jitter
\* it returns and the lastLatency it leaves.
calculateJitter(last, currentLatency) ==
    IF last = 0
    THEN [jitter |-> 0, lastLatency |-> currentLatency]
    ELSE [jitter |-> Abs(currentLatency - last), lastLatency |-> currentLatency]

\* let lastLatency = 0, and nothing sent yet.
LatInit ==
    /\ lastLatency = 0
    /\ latencyResults = [p \in Peers |-> <<>>]
    /\ nLatencyTests = 0

\* ws.on('message') with a 'latency-test' on connection p.
LatencyTest ==
    \E p \in Peers, latency \in Latencies :
       /\ nLatencyTests < MaxLatencyTests
       /\ LET r == calculateJitter(lastLatency, latency)
          IN  /\ lastLatency' = r.lastLatency
              /\ latencyResults' =
                    [latencyResults EXCEPT
                       ![p] = Append(@, [type |-> "latency-result",
                                         latency |-> latency,
                                         jitter |-> r.jitter])]
       /\ nLatencyTests' = nLatencyTests + 1
       /\ UNCHANGED <<proVars, srvVars, simVars, connVars>>

\***************************************************************************
\* SpeedTest (src/unnamed/part_000, lines 1-357)
\***************************************************************************

\* startSpeedTest calls that are accepted.
MaxSimpleRuns == 2

\* for (let i = 0; i < 5; i++) pingPromises.push(this.measurePing())
\* (part_000:94); the handlers are checked for a smaller number of images.
pingImages == 3

\* const iterations = 5 (part_000:126), checked for fewer iterations.
downloadIterations == 3

\* const iterations = 3 (part_000:167), checked for fewer iterations.
uploadIterations == 2

\* const downloadSize = 5000000 (part_000:145)
downloadSize == 5000000

\* resolve(1000): the ping of an image that failed to load (part_000:115)
pingOnError == 1000

\* Math.min(speedMbps, 1000) (part_000:152), in kbit/s
downloadCap == 1000 * 1000

\* Math.min(speed, 500) (part_000:188), in kbit/s
uploadCap == 500 * 1000

\* Time between two events of the ping phase, ms.
ImageGaps == {30}

\* endTime - startTime of a download image, ms.
DownloadMs == {0, 20, 50}

\* Math.random() * 100 + 50 (part_000:156): a value of [50, 150), in kbit/s.
FallbackSpeeds == {100000}

\* Math.random() * 0.3 + 0.2 (part_000:187): a value of [0.2, 0.5), in 1/1000.
UploadFactors == {200, 499}

\* a + b
JsAdd(a, b) ==
    IF a.k = "nan" \/ b.k = "nan" THEN [k |-> "nan", v |-> 0]
    ELSE IF a.k = "inf" \/ b.k = "inf" THEN [k |-> "inf", v |-> 0]
    ELSE Fin(a.v + b.v)

\* a * num / den for a >= 0 and num, den > 0
JsScale(a, num, den) ==
    IF a.k = "fin" THEN Fin((a.v * num) \div den) ELSE a

\* Math.min(a, cap) for a finite cap: NaN stays NaN, Infinity becomes cap.
MathMin(a, cap) ==
    CASE a.k = "nan" -> a
      [] a.k = "inf" -> Fin(cap)
      [] OTHER       -> Fin(IF a.v <= cap THEN a.v ELSE cap)

\* SpeedTest.updateProgress(label, percentage)
SpeedTest_updateProgress(o, label, percentage) ==
    [o EXCEPT !.progressLabel = label, !.progressPercentage = percentage]

\* updateCurrentSpeed(speed, unit)
updateCurrentSpeed(o, speed) == [o EXCEPT !.currentSpeedElement = speed]

\* updateDownloadDisplay()
updateDownloadDisplay(o) == [o EXCEPT !.downloadElement = o.downloadSpeed]

\* updateUploadDisplay()
updateUploadDisplay(o) == [o EXCEPT !.uploadElement = o.uploadSpeed]

\* updatePingDisplay()
updatePingDisplay(o) == [o EXCEPT !.pingElement = o.pingSpeed]

\* updateDisplay()
updateDisplay(o) ==
    updateCurrentSpeed(
        updatePingDisplay(updateUploadDisplay(updateDownloadDisplay(o))),
        o.downloadSpeed)

\* startSpeedTest after `await this.testUpload()`: the final display and the
\* finally block.  The finished run is appended to done (history).
finishSpeedTest(o) ==
    [updateDisplay(o) EXCEPT
        !.testInProgress = FALSE,
        !.startDisabled = FALSE,
        !.pc = "idle",
        !.done = Append(@, [download |-> o.downloadSpeed,
                            upload |-> o.uploadSpeed,
                            factors |-> o.factors])]

\* The callback of measureUploadSpeed's timer: the speed it resolves with;
\* factor is Math.random() * 0.3 + 0.2.
measureUploadSpeed(o, factor) ==
    MathMin(JsScale(o.downloadSpeed, factor, 1000), uploadCap)

\* testUpload up to its first await.
testUpload(o) ==
    [SpeedTest_updateProgress(o, "Testing Upload Speed...", 60) EXCEPT
        !.totalSpeed = Fin(0), !.i = 0, !.pc = "upload"]

\* testUpload from the return of `await this.measureUploadSpeed()` to the
\* next await, or to the end of startSpeedTest.
testUploadStep(o, factor) ==
    LET speed == measureUploadSpeed(o, factor)
        o1 == [o EXCEPT !.totalSpeed = JsAdd(@, speed),
                        !.factors = Append(@, factor)]
        o2 == SpeedTest_updateProgress(o1, "Testing Upload Speed...",
                  60 + ((o.i + 1) * 30) \div uploadIterations)
        o3 == [updateCurrentSpeed(o2, speed) EXCEPT !.i = @ + 1]
    IN  IF o3.i < uploadIterations
        THEN o3
        ELSE LET o4 == [o3 EXCEPT !.uploadSpeed =
                                      JsScale(o3.totalSpeed, 1, uploadIterations)]
             IN  finishSpeedTest(updateUploadDisplay(o4))

\* (downloadSize * 8) / duration / 1000000 with no ceiling applied.
uncappedDownloadSpeed(ms) == JsDiv(downloadSize * 8, ms)

\* img.onload of measureDownloadSpeed: the speed it resolves with, for an
\* image that took ms milliseconds.
measureDownloadSpeed(ms) ==
    MathMin(JsDiv(downloadSize * 8, ms), downloadCap)

\* testDownload up to its first await.
testDownload(o) ==
    [SpeedTest_updateProgress(o, "Testing Download Speed...", 20) EXCEPT
        !.totalSpeed = Fin(0), !.i = 0, !.pc = "download"]

\* testDownload from the return of `await this.measureDownloadSpeed()` with
\* speed to the next await; after the last iteration testUpload starts.
testDownloadStep(o, speed) ==
    LET o1 == [o EXCEPT !.totalSpeed = JsAdd(@, speed)]
        o2 == SpeedTest_updateProgress(o1, "Testing Download Speed...",
                  20 + ((o.i + 1) * 40) \div downloadIterations)
        o3 == [updateCurrentSpeed(o2, speed) EXCEPT !.i = @ + 1]
    IN  IF o3.i < downloadIterations
        THEN o3
        ELSE LET o4 == [o3 EXCEPT !.downloadSpeed =
                                      JsScale(o3.totalSpeed, 1, downloadIterations)]
             IN  testUpload(updateDownloadDisplay(o4))

RECURSIVE SumTo(_, _)
SumTo(f, n) == IF n = 0 THEN 0 ELSE f[n] + SumTo(f, n - 1)

\* testPing up to `await Promise.all(pingPromises)`: five images are
\* requested at once.
testPing(o) ==
    [SpeedTest_updateProgress(o, "Testing Ping...", 10) EXCEPT
        !.pc = "ping", !.settled = {}, !.elapsed = 0,
        !.pingResults = [i \in 1..pingImages |-> 0]]

\* measurePing's promise i resolves with value after gap more milliseconds;
\* when all have resolved, testPing goes on and testDownload starts.
measurePing(o, i, value, gap) ==
    LET o1 == [o EXCEPT !.settled = @ \cup {i},
                        !.elapsed = @ + gap,
                        !.pingResults[i] = value]
    IN  IF o1.settled # 1..pingImages
        THEN o1
        ELSE LET sum == SumTo(o1.pingResults, pingImages)
                 o2  == [o1 EXCEPT
                           !.pingSpeed = (2 * sum + pingImages) \div (2 * pingImages),
                           !.settled = {}, !.elapsed = 0,
                           !.pingResults = [j \in 1..pingImages |-> 0]]
             IN  testDownload(updatePingDisplay(o2))

\* startSpeedTest up to its first await.
startSpeedTest(o) ==
    IF o.testInProgress
    THEN o
    ELSE testPing([o EXCEPT !.testInProgress = TRUE,
                            !.startDisabled = TRUE,
                            !.downloadSpeed = Fin(0),
                            !.uploadSpeed = Fin(0),
                            !.pingSpeed = 0,
                            !.factors = <<>>,
                            !.nRuns = @ + 1])

\* new SpeedTest()
SimInit ==
    speedTest = [downloadSpeed |-> Fin(0), uploadSpeed |-> Fin(0),
                 pingSpeed |-> 0, testInProgress |-> FALSE,
                 startDisabled |-> FALSE,
                 progressLabel |-> "", progressPercentage |-> 0,
                 currentSpeedElement |-> Fin(0), downloadElement |-> Fin(0),
                 uploadElement |-> Fin(0), pingElement |-> 0,
                 pc |-> "idle", settled |-> {}, elapsed |-> 0,
                 pingResults |-> [i \in 1..pingImages |-> 0],
                 i |-> 0, totalSpeed |-> Fin(0),
                 nRuns |-> 0, factors |-> <<>>, done |-> <<>>]

SimCommit(o) == speedTest' = o /\ UNCHANGED <<proVars, srvVars, latVars, connVars>>

\* A click on the start button: startSpeedTest().
StartSpeedTest ==
    /\ speedTest.testInProgress \/ speedTest.nRuns < MaxSimpleRuns
    /\ SimCommit(startSpeedTest(speedTest))

\* img.onload of a measurePing image.
PingImageLoads ==
    /\ speedTest.pc = "ping"
    /\ \E i \in (1..pingImages) \ speedTest.settled, gap \in ImageGaps :
          SimCommit(measurePing(speedTest, i, speedTest.elapsed + gap, gap))

\* img.onerror of a measurePing image.
PingImageFails ==
    /\ speedTest.pc = "ping"
    /\ \E i \in (1..pingImages) \ speedTest.settled, gap \in ImageGaps :
          SimCommit(measurePing(speedTest, i, pingOnError, gap))

\* img.onload of the measureDownloadSpeed image.
DownloadImageLoads ==
    /\ speedTest.pc = "download"
    /\ \E ms \in DownloadMs :
          SimCommit(testDownloadStep(speedTest, measureDownloadSpeed(ms)))

\* img.onerror of the measureDownloadSpeed image.
DownloadImageFails ==
    /\ speedTest.pc = "download"
    /\ \E v \in FallbackSpeeds :
          SimCommit(testDownloadStep(speedTest, Fin(v)))

\* The 1000 ms timer of measureUploadSpeed fires.
UploadTimerFires ==
    /\ speedTest.pc = "upload"
    /\ \E factor \in UploadFactors :
          SimCommit(testUploadStep(speedTest, factor))

\***************************************************************************
\* The server's connection handler and getServerLocation
\***************************************************************************

\* Connections the server accepts.
MaxConnections == 3

\* req.socket.remoteAddress: a string, here the sequence of its characters.
\* An IPv4 address, the IPv4 loopback, the IPv6 loopback, an IPv4-mapped
\* IPv6 address, and two IPv6 addresses.
ClientAddresses ==
    { <<"1", "9", "2", ".", "1", "6", "8", ".", "1", ".", "1", "0">>,
      <<"1", "2", "7", ".", "0", ".", "0", ".", "1">>,
      <<":", ":", "1">>,
      <<":", ":", "f", "f", "f", "f", ":", "1", "2", "7", ".", "0", ".", "0", ".", "1">>,
      <<"2", "0", "0", "1", ":", "d", "b", "8", ":", ":", "1">>,
      <<"f", "e", "8", "0", ":", ":", "1">> }

\* const locations = [...]: the names of the eight locations.
locations ==
    <<"New York", "London", "Tokyo", "Sydney", "Frankfurt", "Singapore",
      "Sao Paulo", "Mumbai">>

\* The value of an expression that is undefined.
undefined == "undefined"

\* ip.split('.'): rest is what is left to read, piece the piece being read
\* and pieces the pieces read so far.
RECURSIVE splitAtDots(_, _, _)
splitAtDots(rest, piece, pieces) ==
    IF rest = <<>>
    THEN Append(pieces, piece)
    ELSE IF Head(rest) = "."
         THEN splitAtDots(Tail(rest), <<>>, Append(pieces, piece))
         ELSE splitAtDots(Tail(rest), Append(piece, Head(rest)), pieces)

split(ip) == splitAtDots(ip, <<>>, <<>>)

IsDigit(ch) == ch \in {"0", "1", "2", "3", "4", "5", "6", "7", "8", "9"}

DigitValue(ch) ==
    CASE ch = "0" -> 0 [] ch = "1" -> 1 [] ch = "2" -> 2 [] ch = "3" -> 3
      [] ch = "4" -> 4 [] ch = "5" -> 5 [] ch = "6" -> 6 [] ch = "7" -> 7
      [] ch = "8" -> 8 [] ch = "9" -> 9

\* The value of the longest prefix of str that is made of digits, continuing
\* from the value n of the digits read so far.
RECURSIVE digitsValue(_, _)
digitsValue(str, n) ==
    IF str = <<>> \/ ~IsDigit(Head(str))
    THEN n
    ELSE digitsValue(Tail(str), 10 * n + DigitValue(Head(str)))

\* parseInt(str) for a string with no leading white space, sign or 0x: NaN
\* when str does not begin with a digit, else the value of its leading
\* digits.
parseInt(str) ==
    IF str = <<>> \/ ~IsDigit(Head(str))
    THEN [k |-> "nan", v |-> 0]
    ELSE Fin(digitsValue(str, 0))

\* ip.split('.').reduce((acc, octet) => acc + parseInt(octet), 0), from acc
RECURSIVE reduceOctets(_, _)
reduceOctets(octets, acc) ==
    IF octets = <<>>
    THEN acc
    ELSE reduceOctets(Tail(octets), JsAdd(acc, parseInt(Head(octets))))

\* getServerLocation(ip): locations[hash % locations.length], which is
\* undefined when the index is NaN.
getServerLocation(ip) ==
    LET hash == reduceOctets(split(ip), Fin(0))
    IN  IF hash.k = "fin"
        THEN locations[(hash.v % Len(locations)) + 1]
        ELSE undefined

\* The connection handler up to ws.on('message'): reading
\* serverLocation.name of an undefined serverLocation throws, and the
\* handler ends there; else server-info is sent.
connectionHandler(clientIp) ==
    LET serverLocation == getServerLocation(clientIp)
    IN  IF serverLocation = undefined
        THEN [clientIp |-> clientIp, threw |-> TRUE, sent |-> <<>>]
        ELSE [clientIp |-> clientIp, threw |-> FALSE,
              sent |-> <<[type |-> "server-info", server |-> serverLocation]>>]

ConnInit == connectionLog = <<>>

\* wss.on('connection')
Connection ==
    \E clientIp \in ClientAddresses :
       /\ Len(connectionLog) < MaxConnections
       /\ connectionLog' = Append(connectionLog, connectionHandler(clientIp))
       /\ UNCHANGED <<proVars, srvVars, simVars, latVars>>

\***************************************************************************
\* Specifications
\***************************************************************************

vars == <<proVars, srvVars, simVars, latVars, connVars>>

Init == ProInit /\ SrvInit /\ SimInit /\ LatInit /\ ConnInit

\* The ProfessionalSpeedTest client.
Next ==
    \/ StartFullTest
    \/ PongArrives
    \/ PingTimeoutFires
    \/ PingOfflineFires
    \/ DownloadIntervalFires
    \/ UploadIntervalFires
    \/ ServerError
    \/ WsOpen
    \/ WsClose
    \/ ReconnectFires

Spec == Init /\ [][Next]_vars

\* The ProfessionalSpeedTest client's connection, with the server selection
\* changing.
ConnectionNext ==
    \/ ServerSelected
    \/ WsOpen
    \/ WsClose
    \/ ReconnectFires

ConnectionSpec == Init /\ [][ConnectionNext]_vars

\* The server.
ServerNext ==
    \/ StartDownload
    \/ DownloadWakes
    \/ StartUpload
    \/ BinaryArrives
    \/ PingArrives
    \/ MalformedArrives
    \/ UnknownTypeArrives
    \/ ClientDisconnects

ServerSpec == Init /\ [][ServerNext]_vars

\* The server with what its scheduling guarantees: a sleeping
\* handleDownloadTest call wakes when its timer is due.  No message of a
\* client is guaranteed to arrive.
FairServerSpec == ServerSpec /\ WF_vars(DownloadWakes)

\* The SpeedTest client.
SimpleNext ==
    \/ StartSpeedTest
    \/ PingImageLoads
    \/ PingImageFails
    \/ DownloadImageLoads
    \/ DownloadImageFails
    \/ UploadTimerFires

SimpleSpec == Init /\ [][SimpleNext]_vars

\* The server's download handler, for downloads of up to LongChunkCount
\* chunks.
DownloadNext ==
    \/ StartLongDownload
    \/ DownloadWakes
    \/ ClientDisconnects

DownloadSpec == Init /\ [][DownloadNext]_vars

\* The server's connection handler.
AcceptNext == Connection

AcceptSpec == Init /\ [][AcceptNext]_vars

\* The server's latency-test handler, for several connections.
LatencyNext == LatencyTest

LatencySpec == Init /\ [][LatencyNext]_vars

\* The two clients.  A page loads one of the two scripts: the object of the
\* other stays as it was constructed.
ClientsNext ==
    \/ SimInit /\ Next
    \/ ProInit /\ SimpleNext

ClientsSpec == Init /\ [][ClientsNext]_vars

\***************************************************************************
\* Claims about ProfessionalSpeedTest
\***************************************************************************

InSeq(x, s) == \E i \in DOMAIN s : s[i] = x

IsPrefix(s, t) == Len(s) <= Len(t) /\ SubSeq(t, 1, Len(s)) = s

PhaseOrder == <<"latency", "download", "upload", "aggregate">>

\* The runs whose startFullTest has begun and not yet reached the end of
\* its finally block.
ActiveRuns == {r \in Runs : pc[r] \notin {"idle", "done"}}

\* C1: a start call made while a run is in progress is rejected: it starts
\* no second run (and so resets no results, phase or progress).
C1_StartWhileRunningRejected ==
    [][ActiveRuns # {} => nRuns' = nRuns]_vars

\* C2: the phases of a run are entered in the order latency, download,
\* upload, aggregate, each at most once, and once the download phase of a
\* run has begun the latency phase's callbacks act no more: they add no
\* reading, count no probe and report no latency progress.
C2_PhasesSequential ==
    [][\A r \in Runs :
          /\ IsPrefix(phases'[r], PhaseOrder)
          /\ pc[r] \in {"download", "upload", "done"} =>
                /\ pings'[r] = pings[r]
                /\ pingCount'[r] = pingCount[r]
                /\ (nRuns' = nRuns /\ progressLabel # "Testing latency...")
                      => progressLabel' # "Testing latency..."]_vars

\* C3: a run cancelled during its download phase never enters the upload or
\* the aggregate phase, and its results are neither shown nor saved.
C3_CancelInDownloadStopsRun ==
    \A r \in Runs :
       cancelledIn[r] = "download" =>
          /\ ~InSeq("upload", phases[r])
          /\ ~InSeq("aggregate", phases[r])
          /\ pc[r] = "done" => (shown < nRuns /\ history < nRuns)

\* The probes of run r that are outstanding: their timer is pending and no
\* answer to them has been handled.
OutstandingProbes(r) ==
    {i \in DOMAIN timers :
        /\ timers[i].run = r
        /\ \/ timers[i].kind = "pingTimeout" /\ ~timers[i].answered
           \/ timers[i].kind = "pingOffline"}

\* C4: during the latency phase at most one probe is outstanding.
C4_OneProbeOutstanding ==
    \A r \in Runs :
       pc[r] = "latency" => Cardinality(OutstandingProbes(r)) <= 1

\* The latency phase of run r ran over the open socket: every reading is a
\* pong's or a timed-out ping's.
Online(r) == \A i \in DOMAIN pings[r] : pings[r][i].src # "offline"

\* C5: a latency phase over the open socket sends exactly targetPings pings
\* and ends with exactly targetPings readings; neither number ever exceeds
\* targetPings.
C5_ExactlyCountProbes ==
    \A r \in Runs :
       Online(r) =>
          /\ sent[r] <= targetPings
          /\ Len(pings[r]) <= targetPings
          /\ pc[r] \in {"download", "upload", "done"} =>
                sent[r] = targetPings /\ Len(pings[r]) = targetPings

\* The readings that are round-trip times of answered probes.
Answered(ps) == SelectSeq(ps, LAMBDA s : s.src = "pong")

\* C6: when pings time out, the reported latency is the mean of the
\* round-trip times of the answered probes only (0 when none was answered).
C6_LostProbesNotAveraged ==
    \A r \in Runs :
       (results.ping = r /\ Online(r)) =>
          pingSpeed = IF Answered(pings[r]) = <<>> THEN 0
                      ELSE RoundedAvgPing(Answered(pings[r]))

\* C7: a run that was not cancelled never completes with a latency reading
\* that was not measured over the connection.
C7_NoCompletionWithoutConnection ==
    \A r \in Runs :
       (pc[r] = "done" /\ cancelledIn[r] = "none") =>
          \A i \in DOMAIN pings[r] : pings[r][i].src # "offline"

\* C8: once the latency phase of the run that owns results.ping has ended,
\* results.ping does not change for the rest of that run.
C8_ResultsPingImmutable ==
    [][\A r \in Runs :
          (results.ping = r /\ results'.ping = r) =>
             ResultsPing(Cur)' = ResultsPing(Cur)]_vars

\***************************************************************************
\* Claims about throughput rates
\***************************************************************************

\* The speeds the server has reported to connection c.
RateMessages(c) ==
    {i \in DOMAIN outbox[c] :
        outbox[c][i].type \in {"download-progress", "download-complete",
                               "upload-progress", "upload-complete"}}

\* C9: no rate the server reports comes from a division by zero, and a
\* download that sent zero bytes reports the rate 0.
C9_ZeroBytesZeroRate ==
    \A c \in Conns : \A i \in RateMessages(c) :
       LET m == outbox[c][i]
       IN  /\ m.speed.k = "fin"
           /\ (m.type = "download-complete" /\ m.totalBytes = 0)
                 => m.speed = Fin(0)

\* The largest cumulative byte count read at or before time t.
RECURSIVE BytesAt(_, _)
BytesAt(samples, t) ==
    IF samples = <<>> \/ Head(samples).t > t THEN 0
    ELSE Max2(Head(samples).bytes, BytesAt(Tail(samples), t))

\* 8 * bytes / elapsed over the trailing 80% of the window [start, end]: the
\* bytes counted after the first fifth of the window, over the time left.
TrailingRate(samples, start, end, total) ==
    LET cut == start + (end - start) \div 5
    IN  JsDiv((total - BytesAt(samples, cut)) * 8, end - cut)

\* C10: the rate an upload-complete reports is the rate over the trailing
\* 80% of the upload's window, with the elapsed time as the divisor.
C10_TrailingWindowRate ==
    \A c \in Conns :
       (outbox[c] # <<>> /\ outbox[c][Len(outbox[c])].type = "upload-complete")
          => LET m == outbox[c][Len(outbox[c])]
             IN  m.speed = TrailingRate(upl[c].samples, upl[c].start,
                                        upl[c].start + m.duration,
                                        m.totalBytes)

\***************************************************************************
\* Claims about the clients' reported rates
\***************************************************************************

\* A JavaScript number that is finite and at most cap.
AtMost(x, cap) == x.k = "fin" /\ x.v <= cap

\* C11: every throughput value a client reports is at most its ceiling:
\* SpeedTest's download result and every speed it displays during the
\* download phase are at most 1000 Mbps, its upload result is at most
\* 500 Mbps, also when the measured duration is zero; and the download
\* average of ProfessionalSpeedTest is at most 1000 Mbps.
C11_RatesBelowCeiling ==
    /\ AtMost(speedTest.downloadSpeed, downloadCap)
    /\ AtMost(speedTest.downloadElement, downloadCap)
    /\ AtMost(speedTest.currentSpeedElement, downloadCap)
    /\ AtMost(speedTest.uploadSpeed, uploadCap)
    /\ AtMost(speedTest.uploadElement, uploadCap)
    /\ AtMost(downloadSpeed, downloadCap)

\* A SpeedTest run has finished whose download result is the ceiling: every
\* one of its measurements was cut to it.
C11_Witness ==
    /\ speedTest.done # <<>>
    /\ speedTest.done[1].download = Fin(downloadCap)

\***************************************************************************
\* Claims about cancellation
\***************************************************************************

\* C12: once a run has been cancelled during its download phase, that phase
\* counts no further byte and records no further speed, and the first tick
\* of its interval after the cancellation ends the phase; the same for a run
\* cancelled during its upload phase.
C12_CancelStopsThroughputPhase ==
    [][\A r \in Runs :
          /\ cancelledIn[r] = "download" =>
                /\ dl'[r].totalBytes = dl[r].totalBytes
                /\ dl'[r].speeds = dl[r].speeds
                /\ (pc[r] = "download" /\ dl'[r] # dl[r]) => pc'[r] # "download"
          /\ cancelledIn[r] = "upload" =>
                /\ ul'[r].totalBytes = ul[r].totalBytes
                /\ ul'[r].speeds = ul[r].speeds
                /\ (pc[r] = "upload" /\ ul'[r] # ul[r]) => pc'[r] # "upload"]_vars

\* C13: once a run has been cancelled during its latency phase, it sends no
\* further ping.
C13_CancelStopsProbes ==
    [][\A r \in Runs : cancelledIn[r] = "latency" => sent'[r] = sent[r]]_vars

\***************************************************************************
\* Claims about jitter
\***************************************************************************

\* The latencies read on connection p and the jitters returned to it.
Readings(p) ==
    [i \in DOMAIN latencyResults[p] |-> latencyResults[p][i].latency]

Jitters(p) ==
    [i \in DOMAIN latencyResults[p] |-> latencyResults[p][i].jitter]

\* C14: when the readings of a connection are all equal, every jitter
\* returned to it is 0, for every number of readings and every interleaving
\* with the latency-test messages of other connections.
C14_ConstantSequenceZeroJitter ==
    \A p \in Peers :
       (\A i, j \in DOMAIN Readings(p) : Readings(p)[i] = Readings(p)[j])
          => \A i \in DOMAIN Jitters(p) : Jitters(p)[i] = 0

\* The jitters calculateJitter returns for readings when its state is the
\* session's own: last is the lastLatency of that session alone.
RECURSIVE OwnJitters(_, _)
OwnJitters(last, readings) ==
    IF readings = <<>>
    THEN <<>>
    ELSE LET r == calculateJitter(last, Head(readings))
         IN  <<r.jitter>> \o OwnJitters(r.lastLatency, Tail(readings))

\* C15: the jitters returned to a connection are a function of that
\* connection's own readings: they are what calculateJitter returns when
\* only that connection sends latency-test messages.
C15_JitterPerSession ==
    \A p \in Peers : Jitters(p) = OwnJitters(0, Readings(p))

\***************************************************************************
\* Claims about SpeedTest's upload rate
\***************************************************************************

\* C16: the upload rate a run reports is determined by its upload phase
\* alone.  SpeedTest's upload phase transfers nothing; all that varies in it
\* are the values Math.random() returns.  Two finished runs whose upload
\* phases were the same (the same values in the same order) report the same
\* upload rate, whatever their download rates were.
C16_UploadIndependentOfDownload ==
    \A a, b \in DOMAIN speedTest.done :
       speedTest.done[a].factors = speedTest.done[b].factors
          => speedTest.done[a].upload = speedTest.done[b].upload

\***************************************************************************
\* Claims about the client's connection
\***************************************************************************

\* C17: the client never opens a connection by itself: every
\* connectWebSocket() call is made by the caller's code (the constructor, a
\* server selection), none by a timer after the connection closed.
C17_NoAutomaticReconnect == connects.timer = 0

\***************************************************************************
\* Claims about the server's message handler
\***************************************************************************

\* C18: a malformed control message is dropped: the server answers it with
\* nothing that resets or fails the client's run, that is, with no 'error'
\* message (on which the client calls resetTest()).
C18_MalformedMessageDropped ==
    \A c \in Conns : \A i \in DOMAIN outbox[c] :
       ~(outbox[c][i].type = "error" /\ outbox[c][i].thrownBy = "JSON.parse")

\* C19: the handler answers every control message of an unrecognised type
\* with an error: the step that receives one sends an 'error' message.
C19_UnknownTypeIsAnError ==
    [][\A c \in Conns :
          unknown'[c] > unknown[c] =>
             /\ Len(outbox'[c]) > Len(outbox[c])
             /\ outbox'[c][Len(outbox'[c])].type = "error"]_vars

\* The handleDownloadTest calls in progress on connection c.
Streams(c) == {k \in DOMAIN tasks : tasks[k].conn = c}

\* C20: on one connection at most one handleDownloadTest call is streaming
\* at a time.
C20_OneDownloadStream ==
    \A c \in Conns : Cardinality(Streams(c)) <= 1

\***************************************************************************
\* Claims about the server's upload phase
\***************************************************************************

\* C21: an upload phase that a start-upload began ends: it is eventually
\* followed by an upload-complete, whether or not the client goes on
\* sending binary data.
C21_UploadPhaseEnds ==
    \A c \in Conns :
       (uploadStartTime[c] # Null) ~>
          (\E i \in DOMAIN outbox[c] : outbox[c][i].type = "upload-complete")

\***************************************************************************
\* Claims about a run's life cycle
\***************************************************************************

\* C22: the in-progress flag is true exactly while a run is in progress
\* (from the acceptance of its start call to the end of its finally block),
\* and when no run is in progress the start button is enabled.
C22_FlagTracksRun ==
    /\ testInProgress <=> (ActiveRuns # {})
    /\ ActiveRuns = {} => ~startDisabled

\* The phase a progress label belongs to, in the order of the phases.
LabelRank(label) ==
    CASE label = "Testing latency..."        -> 1
      [] label = "Testing download speed..." -> 2
      [] label = "Testing upload speed..."   -> 3
      [] OTHER                               -> 0

\* C23: while the first run is the only run, the percentage passed to
\* updateProgress never decreases and stays within 0..100 (progress is in
\* 1/100 of a percent), and the label never goes back to the label of an
\* earlier phase.
C23_ProgressMonotone ==
    [][(nRuns = 1 /\ nRuns' = 1) =>
          /\ progress' >= progress
          /\ progress' \in 0..10000
          /\ LabelRank(progressLabel') >= LabelRank(progressLabel)]_vars

\***************************************************************************
\* Claims about the client's sockets
\***************************************************************************

\* The WebSockets that are not closed, and the reconnect timers pending.
LiveSockets == {k \in DOMAIN sockets : sockets[k] # "CLOSED"}

ReconnectTimers == {i \in DOMAIN timers : timers[i].kind = "reconnect"}

\* C24: the client holds at most one WebSocket that is not closed and at
\* most one pending reconnect timer.
C24_OneSocketOneTimer ==
    /\ Cardinality(LiveSockets) <= 1
    /\ Cardinality(ReconnectTimers) <= 1

\***************************************************************************
\* Claims about calculateJitter and getServerLocation
\***************************************************************************

\* C25: every call of calculateJitter after the first returns the distance
\* between its latency and the latency of the call before it (which is what
\* lastLatency holds between two calls), also when that latency was 0.
C25_JitterIsDistanceToPrevious ==
    [][(nLatencyTests >= 1 /\ nLatencyTests' > nLatencyTests) =>
          \A p \in Peers :
             Len(latencyResults'[p]) > Len(latencyResults[p]) =>
                latencyResults'[p][Len(latencyResults'[p])].jitter
                   = Abs(lastLatency' - lastLatency)]_vars

\* C26: for every client address the connection handler gets,
\* getServerLocation returns one of the eight locations, and the handler
\* does not throw and sends a server-info message with that server.
C26_ServerInfoAlwaysSent ==
    \A i \in DOMAIN connectionLog :
       /\ ~connectionLog[i].threw
       /\ Len(connectionLog[i].sent) = 1
       /\ \E j \in DOMAIN locations :
             connectionLog[i].sent[1].server = locations[j]

\***************************************************************************
\* Claims about the server's byte counts
\***************************************************************************

RECURSIVE SumLens(_)
SumLens(lens) == IF lens = <<>> THEN 0 ELSE Head(lens) + SumLens(Tail(lens))

\* An upload is under way on a connection with outbox box: the server
\* answered a start-upload and has sent no upload-complete since.
UploadActive(box) ==
    \E i \in DOMAIN box :
       /\ box[i].type = "upload-ready"
       /\ \A j \in (i + 1)..Len(box) :
             box[j].type \notin {"upload-ready", "upload-complete"}

\* C27: an upload-progress or upload-complete is sent only while an upload
\* is under way and carries the sum of the lengths of the binary messages
\* the connection received since its most recent start-upload; a binary
\* message that arrives while no upload is under way leaves the count as it
\* was; a start-upload sets the count to zero.
C27_UploadBytesCounted ==
    [][\A c \in Conns :
          LET new == {i \in DOMAIN outbox'[c] : i > Len(outbox[c])}
          IN  /\ \A i \in new :
                    LET m == outbox'[c][i]
                    IN  /\ m.type = "upload-progress" =>
                              /\ UploadActive(outbox[c])
                              /\ m.bytesTransferred = SumLens(upl'[c].lens)
                        /\ m.type = "upload-complete" =>
                              /\ UploadActive(outbox[c])
                              /\ m.totalBytes = SumLens(upl'[c].lens)
                        /\ m.type = "upload-ready" =>
                              totalUploadBytes'[c] = 0
              /\ (/\ Len(upl'[c].lens) = Len(upl[c].lens) + 1
                  /\ ~UploadActive(outbox[c]))
                    => totalUploadBytes'[c] = totalUploadBytes[c]]_vars

\* An upload of two binary messages of 65536 bytes has completed with
\* totalBytes 131072.
C27_Witness ==
    \E c \in Conns :
       /\ upl[c].lens = <<65536, 65536>>
       /\ \E i \in DOMAIN outbox[c] :
             /\ outbox[c][i].type = "upload-complete"
             /\ outbox[c][i].totalBytes = 131072

\* What the server handed to ws.send for connection c, in order: the
\* socket does not open again once it is closed, so every message delivered
\* precedes every message dropped.
Handed(c) == outbox[c] \o dropped[c]

\* The positions in the sequence box of the messages of the given type that
\* answer start-download d.
OfStream(box, d, type) ==
    {i \in DOMAIN box : box[i].type = type /\ box[i].stream = d}

\* The download-complete messages that answer start-download d, on any
\* connection.
CompletesOf(d) ==
    UNION {{<<c, i>> : i \in OfStream(Handed(c), d, "download-complete")} :
              c \in Conns}

\* C28: for every start-download d, download-complete is handed to ws.send
\* once when the call has ended and not before, after every chunk of d,
\* with totalBytes the chunk length times the number of chunks of d sent;
\* no chunk is handed to a socket that is not open; and the bytesDownloaded
\* of d's download-progress messages are strictly increasing.
C28_DownloadStreamWellFormed ==
    \A c \in Conns :
       /\ \A i \in DOMAIN dropped[c] : dropped[c][i].type # "chunk"
       /\ \A d \in 1..nDownloads :
             LET dBox       == Handed(c)
                 dChunks    == OfStream(dBox, d, "chunk")
                 dCompletes == OfStream(dBox, d, "download-complete")
                 dProgress  == OfStream(dBox, d, "download-progress")
                 dEnded     == \A k \in DOMAIN tasks : tasks[k].id # d
             IN  /\ Cardinality(CompletesOf(d)) = IF dEnded THEN 1 ELSE 0
                 /\ \A i \in dCompletes :
                       /\ \A j \in dChunks : j < i
                       /\ \A j \in dChunks :
                             dBox[i].totalBytes
                                = dBox[j].len * Cardinality(dChunks)
                       /\ dChunks = {} => dBox[i].totalBytes = 0
                 /\ \A i, j \in dProgress :
                       i < j => dBox[i].bytesDownloaded < dBox[j].bytesDownloaded

\* A start-download for three chunks was answered with three chunks, two
\* download-progress messages and a download-complete.
C28_Witness ==
    \E c \in Conns, d \in 1..nDownloads :
       /\ Cardinality(OfStream(outbox[c], d, "chunk")) = 3
       /\ Cardinality(OfStream(outbox[c], d, "download-progress")) = 2
       /\ Cardinality(OfStream(outbox[c], d, "download-complete")) = 1

====
